---- MODULE Spec2Model ----
(***************************************************************************)
(* A model of galton.py, the control program of a LEGO Galton board.       *)
(* The program runs in one of three modes: "sim" (simulate the board and   *)
(* print per-bin statistics), "top" (drive the motors of the top hub) and  *)
(* any other value, here "reg" (drive the motors of another hub).          *)
(***************************************************************************)
EXTENDS Integers, Sequences, FiniteSets, TLC

\* ------------------------------------------------------------------ bounds
MaxN == 3        \* largest number of levels N explored
MaxBSim == 2     \* largest number of simulated balls B_SIM explored
MaxNSim == 3     \* largest number of simulations n_sim explored
MaxB == 2        \* largest number of physical balls B explored
MaxMotors == 2   \* longest motor order explored (a prefix of the shipped one)
PDen == 2        \* the random source returns u / PDen, u in 0..PDen-1
MaxSimDraws == 12    \* most draws of one simulation run, N * B_SIM * n_sim
MaxDeployDraws == 4  \* most draws of one deployment run, B * len(motor_order)

\* ------------------------------------------------------- program constants
MOTOR_SPEED == 10
SETTLE_SECONDS == 5
FULL_TURN == 360
ShippedTopOrder == <<"C", "E", "B", "D", "F">>
ShippedBotOrder == <<"A", "C", "E", "B", "D">>
Ports == {"A", "B", "C", "D", "E", "F"}

\* Sampled inputs: probabilities P / PDen (below 0, 0.0, 1 / PDen, 1.0 and
\* above 1), shaft angles read at startup, and opening angles.
PSamples == {0 - 1, 0, 1, PDen, PDen + 1}
PositionSamples == <<10, 180, 350>>
OpeningSamples == {30, 180, 200}
Modes == {"sim", "top", "reg"}

VARIABLES
    \* configuration (module-level constants of the program)
    MODE, P, N, B, B_SIM, n_sim, MOTOR_OPENING_DEGREES,
    TOP_MOTOR_ORDER, BOT_MOTOR_ORDER,
    \* control
    pc,
    \* the random source: number of uniform() calls made so far
    draws,
    \* simulation state
    balls_in_bins, ball, landing_bin, level, ball_draws,
    balls_in_bins_trials, sim, bin, report, error,
    \* deployment state
    motor_order, parity_start, initial_positions, motor_idx,
    ball_count, row_count, right, parity, motor_pos,
    \* the environment: motor shafts, the hub's left button, display, and
    \* what the program has asked of them
    position, left_button, trigger_seen, heart_shown, feed_count,
    get_position_calls, commands, waits,
    \* a board of two hubs: the other hub, its program's state and its
    \* hardware, while this hub's program is the one taking steps
    peer

config == <<MODE, P, N, B, B_SIM, n_sim, MOTOR_OPENING_DEGREES,
            TOP_MOTOR_ORDER, BOT_MOTOR_ORDER>>
simvars == <<balls_in_bins, ball, landing_bin, level, ball_draws,
             balls_in_bins_trials, sim, bin, report, error>>
depvars == <<motor_order, parity_start, initial_positions, motor_idx,
             ball_count, row_count, right, parity, motor_pos>>
envvars == <<position, left_button, trigger_seen, heart_shown, feed_count,
             get_position_calls, commands, waits>>
vars == <<config, pc, draws, simvars, depvars, envvars, peer>>

\* ----------------------------------------------------------------- helpers
\* a hub run on its own has no other hub beside it
NoPeer == [MODE |-> "none"]

Range(s) == {s[i] : i \in 1..Len(s)}

RECURSIVE SumSeq(_)
SumSeq(s) == IF s = <<>> THEN 0 ELSE s[1] + SumSeq(Tail(s))

RECURSIVE SumBins(_, _)
\* sum of f[0] + ... + f[n], for a map f over 0..n
SumBins(f, n) == IF n < 0 THEN 0 ELSE f[n] + SumBins(f, n - 1)

RECURSIVE MaxSeq(_)
MaxSeq(s) == IF Len(s) = 1 THEN s[1]
             ELSE LET m == MaxSeq(Tail(s)) IN IF s[1] > m THEN s[1] ELSE m

RECURSIVE MinSeqFlipped(_)
\* a slip: > in place of <
MinSeqFlipped(s) ==
    IF Len(s) = 1 THEN s[1]
    ELSE LET m == MinSeqFlipped(Tail(s)) IN IF s[1] > m THEN s[1] ELSE m

RECURSIVE MinSeq(_)
MinSeq(s) == IF Len(s) = 1 THEN s[1]
             ELSE LET m == MinSeq(Tail(s)) IN IF s[1] < m THEN s[1] ELSE m

\* Python's % for a positive modulus: the result has the sign of the modulus
PyMod(a, m) == a % m

\* ---------------------------------------------------------------- bern()
\* a slip: <= in place of <
bernInclusive(u, p) == IF u <= p THEN 1 ELSE 0

\* random.uniform(0,1) < P, with the uniform value u / PDen and P = p / PDen
bern(u, p) == IF u < p THEN 1 ELSE 0

Uniform == 0 .. (PDen - 1)

\* ------------------------------------------------------------------- Init
Init ==
    /\ MODE \in Modes
    /\ P \in PSamples
    /\ IF MODE = "sim"
       THEN /\ N \in 0..MaxN
            /\ B_SIM \in 0..MaxBSim
            /\ n_sim \in 0..MaxNSim
            /\ N * B_SIM * n_sim <= MaxSimDraws
            /\ B = MaxB
            /\ MOTOR_OPENING_DEGREES = 30
            /\ TOP_MOTOR_ORDER = SubSeq(ShippedTopOrder, 1, MaxMotors)
            /\ BOT_MOTOR_ORDER = SubSeq(ShippedBotOrder, 1, MaxMotors)
            /\ position = [m \in Ports |-> 0]
       ELSE /\ N = MaxN
            /\ B_SIM = MaxBSim
            /\ n_sim = MaxNSim
            /\ B \in 0..MaxB
            /\ MOTOR_OPENING_DEGREES \in OpeningSamples
            /\ \E k \in 0..MaxMotors :
                 /\ B * k <= MaxDeployDraws
                 /\ BOT_MOTOR_ORDER = SubSeq(ShippedBotOrder, 1, k)
                 /\ TOP_MOTOR_ORDER \in
                       {SubSeq(ShippedTopOrder, 1, k)} \cup
                       (IF MODE = "top" THEN {} ELSE {ShippedTopOrder})
            /\ LET used == IF MODE = "top" THEN TOP_MOTOR_ORDER
                                             ELSE BOT_MOTOR_ORDER
                   place(m) == CHOOSE i \in 1..Len(used) : used[i] = m
                   samples == Len(PositionSamples)
               IN \E first \in 1..samples :
                     position =
                        [m \in Ports |->
                           IF m \in Range(used)
                           THEN PositionSamples[
                                  ((first + place(m)) % samples) + 1]
                           ELSE 0]
    /\ pc = "start"
    /\ draws = 0
    /\ balls_in_bins = <<>>
    /\ ball = 0
    /\ landing_bin = 0
    /\ level = 0
    /\ ball_draws = <<>>
    /\ balls_in_bins_trials = <<>>
    /\ sim = 0
    /\ bin = 0
    /\ report = <<>>
    /\ error = "none"
    /\ motor_order = <<>>
    /\ parity_start = 0
    /\ initial_positions = <<>>
    /\ motor_idx = 0
    /\ ball_count = 0
    /\ row_count = 0
    /\ right = 0
    /\ parity = 0
    /\ motor_pos = 0
    /\ left_button \in (IF MODE = "sim" THEN {FALSE} ELSE BOOLEAN)
    /\ trigger_seen = FALSE
    /\ heart_shown = FALSE
    /\ feed_count = 0
    /\ get_position_calls = 0
    /\ commands = <<>>
    /\ waits = 0
    /\ peer = NoPeer

\* ------------------------------------------------------- simulation mode
\* round(total / n, 1) in tenths: the nearest tenth, a tie going to the even
\* one (no tie arises for n <= 3)
RoundTenths(total, n) ==
    LET q == (10 * total) \div n
        r == (10 * total) - q * n
    IN IF 2 * r > n THEN q + 1
       ELSE IF 2 * r < n THEN q
       ELSE IF q % 2 = 0 THEN q ELSE q + 1

PosLabel(b) == IF b = 0 THEN "     Left "
               ELSE IF b = N THEN "   Right "
               ELSE "            "

\* a slip: range(N + 1) in place of range(N)
LevelsLeftOneMore(lv) == lv <= N

\* for level in range(N): the loop test
LevelsLeft(lv) == lv < N

\* a slip: the bin is advanced when the ball goes left
NextLandingBinOnLeft(lb, r) == lb + (1 - r)

\* landing_bin += bern()
NextLandingBin(lb, r) == lb + r

\* a slip: = 1 in place of += 1
AddBallAssign(f, k) == [f EXCEPT ![k] = 1]

\* balls_in_bins[landing_bin] += 1
AddBall(f, k) == [f EXCEPT ![k] = @ + 1]

\* if MODE == "sim": balls_in_bins_trials[bin] = [] for bin in range(N + 1)
SimSetup ==
    /\ pc = "start"
    /\ MODE = "sim"
    /\ balls_in_bins_trials' = [b \in 0..N |-> <<>>]
    /\ sim' = 0
    /\ pc' = "sim_loop"
    /\ UNCHANGED <<config, peer, draws, balls_in_bins, ball, landing_bin, level,
                   ball_draws, bin, report, error, depvars, envvars>>

\* for _ in range(n_sim): run_one_simulation() is entered; every bin starts
\* with zero balls
EnterSimulation ==
    /\ pc = "sim_loop"
    /\ sim < n_sim
    /\ balls_in_bins' = [b \in 0..N |-> 0]
    /\ ball' = 0
    /\ pc' = "ball_loop"
    /\ UNCHANGED <<config, peer, draws, landing_bin, level, ball_draws,
                   balls_in_bins_trials, sim, bin, report, error,
                   depvars, envvars>>

\* for ball in range(B_SIM): landing_bin = 0
StartBall ==
    /\ pc = "ball_loop"
    /\ ball < B_SIM
    /\ landing_bin' = 0
    /\ level' = 0
    /\ ball_draws' = <<>>
    /\ pc' = "level_loop"
    /\ UNCHANGED <<config, peer, draws, balls_in_bins, ball,
                   balls_in_bins_trials, sim, bin, report, error,
                   depvars, envvars>>

\* for level in range(N): landing_bin += bern()
DrawLevel ==
    /\ pc = "level_loop"
    /\ LevelsLeft(level)
    /\ \E u \in Uniform :
         /\ landing_bin' = NextLandingBin(landing_bin, bern(u, P))
         /\ ball_draws' = Append(ball_draws, bern(u, P))
    /\ draws' = draws + 1
    /\ level' = level + 1
    /\ UNCHANGED <<config, peer, pc, balls_in_bins, ball,
                   balls_in_bins_trials, sim, bin, report, error,
                   depvars, envvars>>

\* balls_in_bins[landing_bin] += 1 (a KeyError when landing_bin is no key)
LandBall ==
    /\ pc = "level_loop"
    /\ ~LevelsLeft(level)
    /\ IF landing_bin \in DOMAIN balls_in_bins
       THEN /\ balls_in_bins' = AddBall(balls_in_bins, landing_bin)
            /\ ball' = ball + 1
            /\ pc' = "ball_loop"
            /\ error' = error
       ELSE /\ error' = "KeyError"
            /\ pc' = "crashed"
            /\ UNCHANGED <<balls_in_bins, ball>>
    /\ UNCHANGED <<config, peer, draws, landing_bin, level, ball_draws,
                   balls_in_bins_trials, sim, bin, report,
                   depvars, envvars>>

\* return(balls_in_bins)
ReturnSimulation ==
    /\ pc = "ball_loop"
    /\ ball >= B_SIM
    /\ pc' = "collect"
    /\ UNCHANGED <<config, peer, draws, simvars, depvars, envvars>>

\* balls_in_bins_trials[bin].append(balls_in_bins[bin]) for every bin
CollectTrial ==
    /\ pc = "collect"
    /\ balls_in_bins_trials' =
         [b \in 0..N |-> Append(balls_in_bins_trials[b], balls_in_bins[b])]
    /\ sim' = sim + 1
    /\ pc' = "sim_loop"
    /\ UNCHANGED <<config, peer, draws, balls_in_bins, ball, landing_bin, level,
                   ball_draws, bin, report, error, depvars, envvars>>

\* print("Number of balls in each bin, based on ", n_sim, " simulations:")
PrintHeader ==
    /\ pc = "sim_loop"
    /\ sim >= n_sim
    /\ report' = <<[kind |-> "header", n_sim |-> n_sim]>>
    /\ bin' = 0
    /\ pc' = "report"
    /\ UNCHANGED <<config, peer, draws, balls_in_bins, ball, landing_bin, level,
                   ball_draws, balls_in_bins_trials, sim, error,
                   depvars, envvars>>

\* one line of the report; sum(...)/len(...) divides by zero on an empty list
ReportBin ==
    /\ pc = "report"
    /\ bin <= N
    /\ LET trials == balls_in_bins_trials[bin]
       IN IF Len(trials) = 0
          THEN /\ error' = "ZeroDivisionError"
               /\ pc' = "crashed"
               /\ UNCHANGED <<report, bin>>
          ELSE /\ report' = Append(report,
                     [kind |-> "bin", pos |-> PosLabel(bin), bin |-> bin,
                      mean |-> RoundTenths(SumSeq(trials), Len(trials)),
                      maxval |-> MaxSeq(trials), minval |-> MinSeq(trials)])
               /\ bin' = bin + 1
               /\ UNCHANGED <<pc, error>>
    /\ UNCHANGED <<config, peer, draws, balls_in_bins, ball, landing_bin, level,
                   ball_draws, balls_in_bins_trials, sim,
                   depvars, envvars>>

FinishReport ==
    /\ pc = "report"
    /\ bin > N
    /\ pc' = "done"
    /\ UNCHANGED <<config, peer, draws, simvars, depvars, envvars>>

SimStep ==
    \/ SimSetup
    \/ EnterSimulation
    \/ StartBall
    \/ DrawLevel
    \/ LandBall
    \/ ReturnSimulation
    \/ CollectTrial
    \/ PrintHeader
    \/ ReportBin
    \/ FinishReport

\* ------------------------------------------------------- deployment mode
\* a slip: the row's parity is not looked at
MoveRightIgnoresParity(r, par) == r # 0

\* to move the beam to the right, the motor goes right on even rows and left
\* on odd rows: (right and not parity) or (not right and parity)
MoveRight(r, par) == (r # 0 /\ par = 0) \/ (r = 0 /\ par # 0)

\* a slip: the % 360 is left out
TargetPositionNoWrap(initial, r, par) ==
    IF MoveRight(r, par)
    THEN initial + MOTOR_OPENING_DEGREES
    ELSE initial - MOTOR_OPENING_DEGREES

\* the position a motor is sent to in the actuation loop
TargetPosition(initial, r, par) ==
    IF MoveRight(r, par)
    THEN PyMod(initial + MOTOR_OPENING_DEGREES, FULL_TURN)
    ELSE PyMod(initial - MOTOR_OPENING_DEGREES, FULL_TURN)

\* parity = (parity_start + row_count) % 2
Parity(start, row) == PyMod(start + row, 2)

\* a slip: every hub starts from the same offset
ParityStartSame(mode) == 0

\* parity_start of a mode: 1 for "top", 0 for every other hub
ParityStart(mode) == IF mode = "top" THEN 1 ELSE 0

MotorOrder(mode) == IF mode = "top" THEN TOP_MOTOR_ORDER ELSE BOT_MOTOR_ORDER

\* motor.run_to_position(pos, direction="shortest path", speed=MOTOR_SPEED)
RunToPosition(m, pos, phase) ==
    [motor |-> m, position |-> pos, direction |-> "shortest path",
     speed |-> MOTOR_SPEED, phase |-> phase]

\* where motor m's shaft stands when run_to_position returns: at the target,
\* or, the motor having stalled, where it stood; the call returns nothing
\* and the program does not look
ShaftAfter(m, target) == {target, position[m]}

\* a slip: <= in place of <
CycleTestInclusive(bc) == bc <= B

\* while ball_count < B: the loop test
CycleTest(bc) == bc < B

\* hub = PrimeHub(); show_image('HEART'); motor_order and parity_start are
\* chosen from MODE
HubSetup ==
    /\ pc = "start"
    /\ MODE # "sim"
    /\ heart_shown' = TRUE
    /\ motor_order' = MotorOrder(MODE)
    /\ parity_start' = ParityStart(MODE)
    /\ initial_positions' = <<>>
    /\ motor_idx' = 1
    /\ pc' = "capture"
    /\ UNCHANGED <<config, peer, draws, simvars, ball_count, row_count, right,
                   parity, motor_pos, position, left_button, trigger_seen,
                   feed_count, get_position_calls, commands, waits>>

\* initial_positions[motor_id] = motor.get_position()
CapturePosition ==
    /\ pc = "capture"
    /\ motor_idx <= Len(motor_order)
    /\ LET m == motor_order[motor_idx]
       IN initial_positions' =
            [x \in DOMAIN initial_positions \cup {m} |->
               IF x = m THEN position[m] ELSE initial_positions[x]]
    /\ get_position_calls' = get_position_calls + 1
    /\ motor_idx' = motor_idx + 1
    /\ UNCHANGED <<config, peer, pc, draws, simvars, motor_order, parity_start,
                   ball_count, row_count, right, parity, motor_pos,
                   position, left_button, trigger_seen, heart_shown,
                   feed_count, commands, waits>>

\* print(initial_positions)
PrintPositions ==
    /\ pc = "capture"
    /\ motor_idx > Len(motor_order)
    /\ pc' = "sync"
    /\ UNCHANGED <<config, peer, draws, simvars, depvars, envvars>>

\* a slip: the button wait is done on the top hub too
PumpBallAfterButton ==
    /\ pc = "sync"
    /\ MODE = "top"
    /\ left_button
    /\ feed_count' = feed_count + 1
    /\ ball_count' = 0
    /\ pc' = "idle"
    /\ UNCHANGED <<config, peer, draws, simvars, motor_order, parity_start,
                   initial_positions, motor_idx, row_count, right, parity,
                   motor_pos, position, left_button, trigger_seen,
                   heart_shown, get_position_calls, commands, waits>>

\* MODE == "top": the ball pump, Motor('A').run_for_rotations(1); then
\* ball_count = 0
PumpBall ==
    /\ pc = "sync"
    /\ MODE = "top"
    /\ feed_count' = feed_count + 1
    /\ ball_count' = 0
    /\ pc' = "idle"
    /\ UNCHANGED <<config, peer, draws, simvars, motor_order, parity_start,
                   initial_positions, motor_idx, row_count, right, parity,
                   motor_pos, position, left_button, trigger_seen,
                   heart_shown, get_position_calls, commands, waits>>

\* a slip: the button is looked at once and the program goes on
WaitUntilPressedNoWait ==
    /\ pc = "sync"
    /\ MODE # "top"
    /\ trigger_seen' = left_button
    /\ ball_count' = 0
    /\ pc' = "idle"
    /\ UNCHANGED <<config, peer, draws, simvars, motor_order, parity_start,
                   initial_positions, motor_idx, row_count, right, parity,
                   motor_pos, position, left_button, heart_shown,
                   feed_count, get_position_calls, commands, waits>>

\* a slip: the button counts only once the top hub has fed its ball
WaitUntilPressedAfterFeed ==
    /\ pc = "sync"
    /\ MODE # "top"
    /\ left_button
    /\ peer.feed_count > 0
    /\ trigger_seen' = left_button
    /\ ball_count' = 0
    /\ pc' = "idle"
    /\ UNCHANGED <<config, peer, draws, simvars, motor_order, parity_start,
                   initial_positions, motor_idx, row_count, right, parity,
                   motor_pos, position, left_button, heart_shown,
                   feed_count, get_position_calls, commands, waits>>

\* every other hub: hub.left_button.wait_until_pressed(); then ball_count = 0
WaitUntilPressed ==
    /\ pc = "sync"
    /\ MODE # "top"
    /\ left_button
    /\ trigger_seen' = left_button
    /\ ball_count' = 0
    /\ pc' = "idle"
    /\ UNCHANGED <<config, peer, draws, simvars, motor_order, parity_start,
                   initial_positions, motor_idx, row_count, right, parity,
                   motor_pos, position, left_button, heart_shown,
                   feed_count, get_position_calls, commands, waits>>

\* a slip: row_count = 0 is set once, before the while loop
StartCycleKeepsRowCount ==
    /\ pc = "idle"
    /\ CycleTest(ball_count)
    /\ ball_count' = ball_count + 1
    /\ row_count' = row_count
    /\ motor_idx' = 1
    /\ pc' = "actuating"
    /\ UNCHANGED <<config, peer, draws, simvars, motor_order, parity_start,
                   initial_positions, right, parity, motor_pos, envvars>>

\* while ball_count < B: ball_count += 1; row_count = 0
StartCycle ==
    /\ pc = "idle"
    /\ CycleTest(ball_count)
    /\ ball_count' = ball_count + 1
    /\ row_count' = 0
    /\ motor_idx' = 1
    /\ pc' = "actuating"
    /\ UNCHANGED <<config, peer, draws, simvars, motor_order, parity_start,
                   initial_positions, right, parity, motor_pos, envvars>>

\* a slip: the target is computed from where the shaft stands now
ActuateFromShaft ==
    /\ pc = "actuating"
    /\ motor_idx <= Len(motor_order)
    /\ LET m == motor_order[motor_idx]
       IN \E u \in Uniform :
            /\ right' = bern(u, P)
            /\ row_count' = row_count + 1
            /\ parity' = Parity(parity_start, row_count + 1)
            /\ motor_pos' = TargetPosition(position[m], bern(u, P),
                                           Parity(parity_start, row_count + 1))
            /\ commands' = Append(commands,
                 RunToPosition(m, TargetPosition(position[m], bern(u, P),
                                    Parity(parity_start, row_count + 1)),
                               "actuate"))
            /\ \E q \in ShaftAfter(m,
                           TargetPosition(position[m], bern(u, P),
                                          Parity(parity_start,
                                                 row_count + 1))) :
                  position' = [position EXCEPT ![m] = q]
    /\ draws' = draws + 1
    /\ motor_idx' = motor_idx + 1
    /\ UNCHANGED <<config, peer, pc, simvars, motor_order, parity_start,
                   initial_positions, ball_count, left_button, trigger_seen,
                   heart_shown, feed_count, get_position_calls, waits>>

\* one pass of the actuation loop: a draw, the row's parity, the command
Actuate ==
    /\ pc = "actuating"
    /\ motor_idx <= Len(motor_order)
    /\ LET m == motor_order[motor_idx]
       IN \E u \in Uniform :
            /\ right' = bern(u, P)
            /\ row_count' = row_count + 1
            /\ parity' = Parity(parity_start, row_count + 1)
            /\ motor_pos' = TargetPosition(initial_positions[m],
                                           bern(u, P),
                                           Parity(parity_start, row_count + 1))
            /\ commands' = Append(commands,
                 RunToPosition(m, TargetPosition(initial_positions[m],
                                    bern(u, P),
                                    Parity(parity_start, row_count + 1)),
                               "actuate"))
            /\ \E q \in ShaftAfter(m,
                           TargetPosition(initial_positions[m], bern(u, P),
                                          Parity(parity_start,
                                                 row_count + 1))) :
                  position' = [position EXCEPT ![m] = q]
    /\ draws' = draws + 1
    /\ motor_idx' = motor_idx + 1
    /\ UNCHANGED <<config, peer, pc, simvars, motor_order, parity_start,
                   initial_positions, ball_count, left_button, trigger_seen,
                   heart_shown, feed_count, get_position_calls, waits>>

\* a slip: the settle wait is left out
BeginSettleNoWait ==
    /\ pc = "actuating"
    /\ motor_idx > Len(motor_order)
    /\ waits' = waits
    /\ pc' = "settling"
    /\ UNCHANGED <<config, peer, draws, simvars, depvars, position, left_button,
                   trigger_seen, heart_shown, feed_count,
                   get_position_calls, commands>>

\* wait_for_seconds(5) is called once every motor of the cycle is commanded
BeginSettle ==
    /\ pc = "actuating"
    /\ motor_idx > Len(motor_order)
    /\ waits' = waits + 1
    /\ pc' = "settling"
    /\ UNCHANGED <<config, peer, draws, simvars, depvars, position, left_button,
                   trigger_seen, heart_shown, feed_count,
                   get_position_calls, commands>>

\* a slip: the positions are read again once the motors have settled
EndSettleRecaptures ==
    /\ pc = "settling"
    /\ motor_idx' = 1
    /\ pc' = "resetting"
    /\ initial_positions' = [m \in DOMAIN initial_positions |-> position[m]]
    /\ UNCHANGED <<config, peer, draws, simvars, motor_order, parity_start,
                   ball_count, row_count, right, parity,
                   motor_pos, envvars>>

\* the wait returns
EndSettle ==
    /\ pc = "settling"
    /\ motor_idx' = 1
    /\ pc' = "resetting"
    /\ UNCHANGED <<config, peer, draws, simvars, motor_order, parity_start,
                   initial_positions, ball_count, row_count, right, parity,
                   motor_pos, envvars>>

\* a slip: the motor is sent back to motor_pos, the last target computed
ResetMotorToLastTarget ==
    /\ pc = "resetting"
    /\ motor_idx <= Len(motor_order)
    /\ LET m == motor_order[motor_idx]
       IN /\ commands' = Append(commands,
                RunToPosition(m, motor_pos, "reset"))
          /\ position' = [position EXCEPT ![m] = motor_pos]
    /\ motor_idx' = motor_idx + 1
    /\ UNCHANGED <<config, peer, pc, draws, simvars, motor_order, parity_start,
                   initial_positions, ball_count, row_count, right, parity,
                   motor_pos, left_button, trigger_seen, heart_shown,
                   feed_count, get_position_calls, waits>>

\* motor.run_to_position(initial_positions[motor_id], ...)
ResetMotor ==
    /\ pc = "resetting"
    /\ motor_idx <= Len(motor_order)
    /\ LET m == motor_order[motor_idx]
       IN /\ commands' = Append(commands,
                RunToPosition(m, initial_positions[m], "reset"))
          /\ \E q \in ShaftAfter(m, initial_positions[m]) :
                position' = [position EXCEPT ![m] = q]
    /\ motor_idx' = motor_idx + 1
    /\ UNCHANGED <<config, peer, pc, draws, simvars, motor_order, parity_start,
                   initial_positions, ball_count, row_count, right, parity,
                   motor_pos, left_button, trigger_seen, heart_shown,
                   feed_count, get_position_calls, waits>>

\* the reset loop ends; back to the while test
EndCycle ==
    /\ pc = "resetting"
    /\ motor_idx > Len(motor_order)
    /\ pc' = "idle"
    /\ UNCHANGED <<config, peer, draws, simvars, depvars, envvars>>

\* the while test fails: the program ends
Finish ==
    /\ pc = "idle"
    /\ ~CycleTest(ball_count)
    /\ pc' = "done"
    /\ UNCHANGED <<config, peer, draws, simvars, depvars, envvars>>

DeployStep ==
    \/ HubSetup
    \/ CapturePosition
    \/ PrintPositions
    \/ PumpBall
    \/ WaitUntilPressed
    \/ StartCycle
    \/ Actuate
    \/ BeginSettle
    \/ EndSettle
    \/ ResetMotor
    \/ EndCycle
    \/ Finish

\* ------------------------------------------------------- the environment
\* somebody presses or releases the hub's left button
PressButton ==
    /\ MODE # "sim"
    /\ ~left_button
    /\ left_button' = TRUE
    /\ UNCHANGED <<config, peer, pc, draws, simvars, depvars, position,
                   trigger_seen, heart_shown, feed_count,
                   get_position_calls, commands, waits>>

ReleaseButton ==
    /\ MODE # "sim"
    /\ left_button
    /\ left_button' = FALSE
    /\ UNCHANGED <<config, peer, pc, draws, simvars, depvars, position,
                   trigger_seen, heart_shown, feed_count,
                   get_position_calls, commands, waits>>

EnvStep == PressButton \/ ReleaseButton

ProgramStep == SimStep \/ DeployStep

Next == ProgramStep \/ EnvStep

Spec == Init /\ [][Next]_vars

\* the interpreter keeps running the program: a step that stays possible
\* is eventually taken
FairSpec == Spec /\ WF_vars(ProgramStep)

\* ------------------------------------------------------ a two-hub board
\* The sample design: two hubs, each loaded with this program, one with
\* MODE "top" and one with MODE "reg".  Each hub has its own interpreter, its
\* own ports and its own button; the hub whose program takes the next step
\* is held in the variables, the other one in peer.

\* this hub: its program's state and its hardware
Self ==
    [MODE |-> MODE, pc |-> pc, draws |-> draws,
     motor_order |-> motor_order, parity_start |-> parity_start,
     initial_positions |-> initial_positions, motor_idx |-> motor_idx,
     ball_count |-> ball_count, row_count |-> row_count, right |-> right,
     parity |-> parity, motor_pos |-> motor_pos, position |-> position,
     left_button |-> left_button, trigger_seen |-> trigger_seen,
     heart_shown |-> heart_shown, feed_count |-> feed_count,
     get_position_calls |-> get_position_calls, commands |-> commands,
     waits |-> waits]

\* a hub before its program's first statement, its shafts at the given angles
HubAtStart(mode, shafts) ==
    [MODE |-> mode, pc |-> "start", draws |-> 0,
     motor_order |-> <<>>, parity_start |-> 0,
     initial_positions |-> <<>>, motor_idx |-> 0,
     ball_count |-> 0, row_count |-> 0, right |-> 0,
     parity |-> 0, motor_pos |-> 0, position |-> shafts,
     left_button |-> FALSE, trigger_seen |-> FALSE,
     heart_shown |-> FALSE, feed_count |-> 0,
     get_position_calls |-> 0, commands |-> <<>>,
     waits |-> 0]

\* the shafts of the two hubs of the pair when the programs are started
TopShafts == [m \in Ports |-> IF m = "C" THEN 10 ELSE 350]
BotShafts == [m \in Ports |-> IF m = "A" THEN 180 ELSE 10]

\* both hubs are loaded with the same constants but MODE; one ball, two
\* motors a hub, P = 1 / PDen
PairInit ==
    /\ P = 1
    /\ N = 0
    /\ B = 1
    /\ B_SIM = 0
    /\ n_sim = 0
    /\ MOTOR_OPENING_DEGREES = 30
    /\ TOP_MOTOR_ORDER = SubSeq(ShippedTopOrder, 1, 2)
    /\ BOT_MOTOR_ORDER = SubSeq(ShippedBotOrder, 1, 2)
    /\ balls_in_bins = <<>>
    /\ ball = 0
    /\ landing_bin = 0
    /\ level = 0
    /\ ball_draws = <<>>
    /\ balls_in_bins_trials = <<>>
    /\ sim = 0
    /\ bin = 0
    /\ report = <<>>
    /\ error = "none"
    /\ MODE = "top"
    /\ pc = "start"
    /\ draws = 0
    /\ motor_order = <<>>
    /\ parity_start = 0
    /\ initial_positions = <<>>
    /\ motor_idx = 0
    /\ ball_count = 0
    /\ row_count = 0
    /\ right = 0
    /\ parity = 0
    /\ motor_pos = 0
    /\ position = TopShafts
    /\ left_button = FALSE
    /\ trigger_seen = FALSE
    /\ heart_shown = FALSE
    /\ feed_count = 0
    /\ get_position_calls = 0
    /\ commands = <<>>
    /\ waits = 0
    /\ peer = HubAtStart("reg", BotShafts)

\* the next step is the other hub's: the two hubs change places, nothing
\* of either is touched
SwitchHub ==
    /\ peer.MODE # "none"
    /\ peer' = Self
    /\ MODE' = peer.MODE
    /\ pc' = peer.pc
    /\ draws' = peer.draws
    /\ motor_order' = peer.motor_order
    /\ parity_start' = peer.parity_start
    /\ initial_positions' = peer.initial_positions
    /\ motor_idx' = peer.motor_idx
    /\ ball_count' = peer.ball_count
    /\ row_count' = peer.row_count
    /\ right' = peer.right
    /\ parity' = peer.parity
    /\ motor_pos' = peer.motor_pos
    /\ position' = peer.position
    /\ left_button' = peer.left_button
    /\ trigger_seen' = peer.trigger_seen
    /\ heart_shown' = peer.heart_shown
    /\ feed_count' = peer.feed_count
    /\ get_position_calls' = peer.get_position_calls
    /\ commands' = peer.commands
    /\ waits' = peer.waits
    /\ UNCHANGED <<P, N, B, B_SIM, n_sim, MOTOR_OPENING_DEGREES,
                   TOP_MOTOR_ORDER, BOT_MOTOR_ORDER, simvars>>

PairNext == DeployStep \/ EnvStep \/ SwitchHub

PairSpec == PairInit /\ [][PairNext]_vars

\* ============================================================ properties
RECURSIVE CountOnes(_)
CountOnes(s) == IF s = <<>> THEN 0
                ELSE (IF s[1] = 1 THEN 1 ELSE 0) + CountOnes(Tail(s))

InTrial == MODE = "sim" /\ pc \in {"ball_loop", "level_loop", "collect"}
Returned == MODE = "sim" /\ pc = "collect"

\* C1: while run_one_simulation runs, the counts of bins 0..N add up to the
\* number of balls processed so far; the map it returns has bins 0..N and
\* counts adding up to exactly B_SIM.
C1_TrialSum ==
    /\ InTrial => /\ DOMAIN balls_in_bins = 0..N
                  /\ SumBins(balls_in_bins, N) = ball
                  /\ ball <= B_SIM
    /\ Returned => SumBins(balls_in_bins, N) = B_SIM

\* two balls of one trial in the same bin, returned
C1_Witness ==
    /\ Returned
    /\ B_SIM = 2
    /\ N >= 2
    /\ balls_in_bins[1] = 2

\* C2: the landing bin is the number of 1 outcomes among the ball's draws,
\* lies in 0..N and is a key of the map; landing a ball adds one to that
\* bin's count and leaves every other count as it was; N = 3 with draws
\* 1, 0, 1 gives {0:0, 1:0, 2:1, 3:0}.
C2_LandingBin ==
    /\ [](MODE = "sim" /\ pc = "level_loop" =>
            /\ Len(ball_draws) = level
            /\ landing_bin = CountOnes(ball_draws)
            /\ landing_bin \in 0..N
            /\ landing_bin \in DOMAIN balls_in_bins)
    /\ [][pc = "level_loop" /\ pc' # "level_loop" =>
            /\ pc' = "ball_loop"
            /\ Len(ball_draws) = N
            /\ DOMAIN balls_in_bins' = DOMAIN balls_in_bins
            /\ \A b \in 0..N :
                 balls_in_bins'[b] = balls_in_bins[b] +
                    (IF b = CountOnes(ball_draws) THEN 1 ELSE 0)]_vars
    /\ [](MODE = "sim" /\ pc = "ball_loop" /\ N = 3 /\ ball = 1
            /\ ball_draws = <<1, 0, 1>> =>
            balls_in_bins = [b \in 0..3 |-> IF b = 2 THEN 1 ELSE 0])

\* the scenario N = 3, draws 1, 0, 1, landed
C2_Witness ==
    /\ MODE = "sim"
    /\ pc = "ball_loop"
    /\ N = 3
    /\ ball = 1
    /\ ball_draws = <<1, 0, 1>>
    /\ balls_in_bins[2] = 1

\* C3: with p = 0.0 (and N > 0) every draw is 0 and the returned map holds
\* all B_SIM balls in bin 0; with p = 1.0 every draw is 1 and the returned
\* map holds all B_SIM balls in bin N; every other bin holds 0.
C3_Degenerate ==
    /\ P = 0 =>
         /\ \A i \in 1..Len(ball_draws) : ball_draws[i] = 0
         /\ right = 0
         /\ Returned /\ N > 0 =>
              balls_in_bins = [b \in 0..N |-> IF b = 0 THEN B_SIM ELSE 0]
    /\ P = PDen =>
         /\ \A i \in 1..Len(ball_draws) : ball_draws[i] = 1
         /\ MODE # "sim" /\ draws > 0 => right = 1
         /\ Returned =>
              balls_in_bins = [b \in 0..N |-> IF b = N THEN B_SIM ELSE 0]

\* p = 0.0: a trial of two balls over at least two levels, returned
C3_Witness ==
    /\ Returned
    /\ P = 0
    /\ N >= 2
    /\ B_SIM = 2
    /\ draws >= 4
    /\ balls_in_bins[0] = 2

\* C4: with N = 0 no draw is ever made and the returned map has the single
\* bin 0, holding all B_SIM balls, whatever p is.
C4_NoLevels ==
    MODE = "sim" /\ N = 0 =>
       /\ draws = 0
       /\ error # "KeyError"
       /\ Returned => balls_in_bins = [b \in {0} |-> B_SIM]

\* N = 0, p = 0.5, two balls: the second trial is returned
C4_Witness ==
    /\ Returned
    /\ N = 0
    /\ 0 < P /\ P < PDen
    /\ B_SIM = 2
    /\ sim = 1

\* -------------------------------------------------- deployment properties
Deployed == MODE # "sim"
Synced == Deployed /\ pc \in {"idle", "actuating", "settling", "resetting"}
Terminal == Deployed /\ pc = "done"

RECURSIVE CountPhase(_, _)
CountPhase(cmds, phase) ==
    IF cmds = <<>> THEN 0
    ELSE (IF cmds[1].phase = phase THEN 1 ELSE 0)
         + CountPhase(Tail(cmds), phase)

\* the last thing the program did was the actuation pass of motor
\* motor_order[motor_idx - 1]
JustActuated ==
    /\ Deployed
    /\ pc \in {"actuating", "settling"}
    /\ motor_idx > 1

LastCommand == commands[Len(commands)]

\* C5: ball_count never passes B; whenever the while test is reached, and
\* in the terminal state, the actuation commands, the reset commands and the
\* draws each number ball_count * len(motor_order) and the waits number
\* ball_count, which is B in the terminal state; the terminal state issues
\* nothing more; once the sync step is over the terminal state is reached.
C5_Terminates ==
    /\ [](Deployed => ball_count \in 0..B)
    /\ [](Deployed /\ pc \in {"idle", "done"} =>
            /\ CountPhase(commands, "actuate") = ball_count * Len(motor_order)
            /\ CountPhase(commands, "reset") = ball_count * Len(motor_order)
            /\ Len(commands) = 2 * ball_count * Len(motor_order)
            /\ draws = ball_count * Len(motor_order)
            /\ waits = ball_count)
    /\ [](Terminal => ball_count = B)
    /\ [][Terminal => UNCHANGED <<pc, draws, depvars, commands, waits,
                                  feed_count, get_position_calls,
                                  position>>]_vars
    /\ (Synced ~> Terminal)

\* two cycles over two motors have run and the program has ended
C5_Witness ==
    /\ Terminal
    /\ B = 2
    /\ Len(motor_order) = 2
    /\ CountPhase(commands, "actuate") = 4
    /\ CountPhase(commands, "reset") = 4

\* the magnitude of the shortest rotation from angle a to angle b
ShortestRotation(a, b) ==
    LET d == PyMod(b - a, FULL_TURN)
    IN IF d <= FULL_TURN - d THEN d ELSE FULL_TURN - d

\* target differs from initial by the opening angle, modulo a full turn
DiffersByOpening(initial, target) ==
    PyMod(target - initial, FULL_TURN) \in
        {PyMod(MOTOR_OPENING_DEGREES, FULL_TURN),
         PyMod(0 - MOTOR_OPENING_DEGREES, FULL_TURN)}

\* C6 as stated: every actuation target lies in [0, 360), differs from the
\* recorded initial position by the opening angle modulo 360, and the
\* shortest rotation from the initial position to it has magnitude exactly
\* the opening angle, for every configured opening angle.
C6_AsStated ==
    \A i \in 1..Len(commands) :
       commands[i].phase = "actuate" =>
          LET initial == initial_positions[commands[i].motor]
              target == commands[i].position
          IN /\ target \in 0..(FULL_TURN - 1)
             /\ DiffersByOpening(initial, target)
             /\ ShortestRotation(initial, target) = MOTOR_OPENING_DEGREES

\* what holds of a target computed from a recorded initial position
TargetAsAmended(initial, target) ==
    /\ target \in 0..(FULL_TURN - 1)
    /\ DiffersByOpening(initial, target)
    /\ MOTOR_OPENING_DEGREES \in 0..(FULL_TURN \div 2) =>
          ShortestRotation(initial, target) = MOTOR_OPENING_DEGREES
    /\ MOTOR_OPENING_DEGREES \in (FULL_TURN \div 2)..FULL_TURN =>
          ShortestRotation(initial, target) =
             FULL_TURN - MOTOR_OPENING_DEGREES

\* C6 amended: every actuation target lies in [0, 360) and differs from the
\* recorded initial position by the opening angle modulo 360; the shortest
\* rotation to it has magnitude exactly the opening angle when that is in
\* 0..180, and 360 minus the opening angle when it is in 180..360.  The
\* same holds of the target computed for every initial position
\* 0..359, either draw and either parity.
C6_Target ==
    /\ \A i \in 1..Len(commands) :
          commands[i].phase = "actuate" =>
             TargetAsAmended(initial_positions[commands[i].motor],
                             commands[i].position)
    /\ Deployed /\ pc = "start" =>
          \A initial \in 0..(FULL_TURN - 1) : \A r \in {0, 1} :
             \A par \in {0, 1} :
                TargetAsAmended(initial, TargetPosition(initial, r, par))

\* an opening of 30 degrees from 350 wraps past 0 to 20
C6_Witness ==
    /\ JustActuated
    /\ MOTOR_OPENING_DEGREES = 30
    /\ initial_positions[LastCommand.motor] = 350
    /\ LastCommand.position = 20

\* C7: the actuation command's target is (initial + opening) mod 360 for
\* (right = 1, parity = 0) and for (right = 0, parity = 1), and
\* (initial - opening) mod 360 for (right = 1, parity = 1) and for
\* (right = 0, parity = 0).
C7_Direction ==
    JustActuated =>
       LET initial == initial_positions[LastCommand.motor]
           plus == PyMod(initial + MOTOR_OPENING_DEGREES, FULL_TURN)
           minus == PyMod(initial - MOTOR_OPENING_DEGREES, FULL_TURN)
       IN /\ LastCommand.phase = "actuate"
          /\ LastCommand.position = motor_pos
          /\ right \in {0, 1}
          /\ parity \in {0, 1}
          /\ right = 1 /\ parity = 0 => motor_pos = plus
          /\ right = 1 /\ parity = 1 => motor_pos = minus
          /\ right = 0 /\ parity = 0 => motor_pos = minus
          /\ right = 0 /\ parity = 1 => motor_pos = plus

\* a ball sent left on an odd row: the motor is sent to initial + opening
C7_Witness ==
    /\ JustActuated
    /\ right = 0
    /\ parity = 1
    /\ MOTOR_OPENING_DEGREES = 30
    /\ initial_positions[LastCommand.motor] = 10
    /\ LastCommand.position = 40

\* C8: in every cycle the k-th motor of the list is handled with
\* row_count = k and parity = (parity_start + k) mod 2, parity_start being 1
\* on the top hub and 0 on any other; the top hub's first motor has parity 0
\* and, on a draw of 1, is sent to (initial + opening) mod 360.
C8_RowParity ==
    /\ Deployed /\ pc # "start" =>
          /\ parity_start = (IF MODE = "top" THEN 1 ELSE 0)
          /\ motor_order = (IF MODE = "top" THEN TOP_MOTOR_ORDER
                                            ELSE BOT_MOTOR_ORDER)
    /\ Deployed /\ pc = "actuating" => row_count = motor_idx - 1
    /\ JustActuated =>
          LET k == motor_idx - 1
              initial == initial_positions[motor_order[k]]
          IN /\ row_count = k
             /\ LastCommand.motor = motor_order[k]
             /\ parity = (IF MODE = "top" THEN (1 + k) % 2 ELSE k % 2)
             /\ MODE = "top" /\ k = 1 =>
                   /\ parity = 0
                   /\ right = 1 =>
                         LastCommand.position =
                            PyMod(initial + MOTOR_OPENING_DEGREES, FULL_TURN)

\* the top hub's first motor in the second cycle, on a draw of 1
C8_Witness ==
    /\ JustActuated
    /\ MODE = "top"
    /\ ball_count = 2
    /\ motor_idx = 2
    /\ right = 1
    /\ parity = 0

\* C9: on a hub other than the top one, as long as the button wait has not
\* seen the button pressed nothing has been asked of any motor: no command,
\* no draw, no settle wait, and the program is not past the sync step.
C9_NoCommandBeforeTrigger ==
    MODE = "reg" /\ ~trigger_seen =>
       /\ commands = <<>>
       /\ draws = 0
       /\ waits = 0
       /\ pc \in {"start", "capture", "sync"}

\* the first command of the first cycle, after the button was seen pressed
C9_Witness ==
    /\ MODE = "reg"
    /\ trigger_seen
    /\ ball_count = 1
    /\ Len(commands) = 1

\* C10: on the top hub the ball pump runs exactly once, before the first
\* command, and the sync step never depends on the button: it can be taken
\* whether the button is pressed or not, and no button wait ever resolves.
C10_PrimaryFeed ==
    MODE = "top" =>
       /\ feed_count \in {0, 1}
       /\ pc \in {"start", "capture", "sync"} =>
             feed_count = 0 /\ commands = <<>>
       /\ pc \in {"idle", "actuating", "settling", "resetting", "done"} =>
             feed_count = 1
       /\ ~trigger_seen
       /\ pc = "sync" => ENABLED PumpBall

\* the pump has run and the first command is out, the button not pressed
C10_Witness ==
    /\ MODE = "top"
    /\ ~left_button
    /\ feed_count = 1
    /\ Len(commands) = 1

\* the startup steps, up to and including the capture loop
AtStartup == pc \in {"start", "capture"}

\* C11: every motor of the list has its position read once, in the capture
\* loop, before the sync step and before any command; from then on no step
\* changes the initial-position map or reads a position again, whatever the
\* shafts do.
C11_CapturedOnce ==
    /\ [](Deployed /\ pc \in {"start", "capture", "sync"} =>
            /\ commands = <<>>
            /\ feed_count = 0
            /\ ~trigger_seen
            /\ draws = 0)
    /\ [](Deployed /\ pc = "capture" =>
            /\ get_position_calls = motor_idx - 1
            /\ DOMAIN initial_positions =
                  {motor_order[i] : i \in 1..(motor_idx - 1)})
    /\ [](Deployed /\ ~AtStartup =>
            /\ get_position_calls = Len(motor_order)
            /\ DOMAIN initial_positions = Range(motor_order))
    /\ [][Deployed /\ pc = "capture" =>
            \A m \in DOMAIN initial_positions :
               /\ m \in DOMAIN initial_positions'
               /\ initial_positions'[m] = initial_positions[m]]_vars
    /\ [][Deployed /\ ~AtStartup =>
            UNCHANGED <<initial_positions, get_position_calls>>]_vars

\* a shaft stands away from its recorded initial position
C11_Witness ==
    /\ Deployed
    /\ pc = "settling"
    /\ ball_count = 2
    /\ \E m \in DOMAIN initial_positions :
          position[m] # initial_positions[m]

\* the last n commands are the resets of the first n motors of the list, in
\* list order, each to the motor's recorded initial position
LastAreResets(n) ==
    /\ Len(commands) >= n
    /\ \A k \in 1..n :
          commands[Len(commands) - n + k] =
             [motor |-> motor_order[k],
              position |-> initial_positions[motor_order[k]],
              direction |-> "shortest path",
              speed |-> MOTOR_SPEED,
              phase |-> "reset"]

\* the last command sent to motor m
LastCommandTo(m) ==
    LET idx == {i \in 1..Len(commands) : commands[i].motor = m}
    IN commands[CHOOSE i \in idx : \A j \in idx : j <= i]

\* C12: no reset is sent before the cycle's settle wait; the reset loop
\* sends one command per motor, in list order, to the recorded initial
\* position; whenever the while test is reached after a cycle, and in the
\* terminal state, the last command sent to every motor of the list is a
\* return to its initial position.
C12_ResetToInitial ==
    /\ Deployed /\ pc \in {"actuating", "settling"} =>
          CountPhase(commands, "reset") =
             (ball_count - 1) * Len(motor_order)
    /\ Deployed /\ pc = "resetting" =>
          /\ waits = ball_count
          /\ LastAreResets(motor_idx - 1)
          /\ CountPhase(commands, "reset") =
                (ball_count - 1) * Len(motor_order) + (motor_idx - 1)
    /\ Deployed /\ pc \in {"idle", "done"} /\ ball_count > 0 =>
          /\ LastAreResets(Len(motor_order))
          /\ \A m \in Range(motor_order) :
                /\ LastCommandTo(m).phase = "reset"
                /\ LastCommandTo(m).position = initial_positions[m]

\* the end of the first of two cycles over two motors
C12_Witness ==
    /\ Deployed
    /\ pc = "idle"
    /\ B = 2
    /\ ball_count = 1
    /\ Len(motor_order) = 2
    /\ Len(commands) = 4

SimMode == MODE = "sim"

\* the report holds a line of statistics
ReportsStatistics == \E i \in 1..Len(report) : report[i].kind = "bin"

\* C13 as stated: with n_sim = 0 the run is rejected before any statistic is
\* computed or reported: no bin line is printed and no arithmetic or
\* empty-sequence fault is raised.
C13_EmptyRejected ==
    SimMode /\ n_sim = 0 =>
       /\ ~ReportsStatistics
       /\ error = "none"
       /\ pc # "crashed"

\* C14 as stated: with a probability outside [0, 1], or with an empty motor
\* order in deployment mode, the run does not proceed: no draw, no trial, no
\* feed action, no trigger wait, no command and no settle wait.
InvalidProbability == P < 0 \/ P > PDen
EmptyMotorOrder == Deployed /\ MotorOrder(MODE) = <<>>

C14_ConfigRejected ==
    InvalidProbability \/ EmptyMotorOrder =>
       /\ draws = 0
       /\ pc \notin {"ball_loop", "level_loop", "collect"}
       /\ feed_count = 0
       /\ ~trigger_seen
       /\ commands = <<>>
       /\ waits = 0
       /\ pc \notin {"sync", "idle", "actuating", "settling", "resetting"}

\* every trial has been run and collected, and there was at least one
Aggregated == SimMode /\ pc \in {"report", "done"} /\ n_sim >= 1

\* the counts bin b collected over the trials
TrialsOf(b) == balls_in_bins_trials[b]

RECURSIVE SumOfSums(_)
\* the sum of all entries of the lists of bins 0..n
SumOfSums(n) == IF n < 0 THEN 0 ELSE SumSeq(TrialsOf(n)) + SumOfSums(n - 1)

\* what the report says of bin b, a line's mean being in tenths
LineOf(b) == report[b + 2]

MaxAndMinReported(b) ==
    /\ LineOf(b).kind = "bin"
    /\ LineOf(b).bin = b
    /\ \E i \in 1..n_sim : TrialsOf(b)[i] = LineOf(b).maxval
    /\ \A i \in 1..n_sim : TrialsOf(b)[i] <= LineOf(b).maxval
    /\ \E i \in 1..n_sim : TrialsOf(b)[i] = LineOf(b).minval
    /\ \A i \in 1..n_sim : TrialsOf(b)[i] >= LineOf(b).minval

\* the lists: one entry per trial, the i-th being the bin's count in the
\* i-th trial, never changed once collected
ListsCollected ==
    /\ [](SimMode /\ pc \notin {"start", "crashed"} =>
            /\ DOMAIN balls_in_bins_trials = 0..N
            /\ \A b \in 0..N :
                  Len(TrialsOf(b)) =
                     (IF pc \in {"report", "done"} THEN n_sim ELSE sim)
            /\ \A i \in 1..Len(TrialsOf(0)) :
                  SumBins([b \in 0..N |-> TrialsOf(b)[i]], N) = B_SIM)
    /\ [][SimMode /\ pc = "collect" /\ pc' # "collect" =>
            \A b \in 0..N :
               balls_in_bins_trials'[b] =
                  Append(TrialsOf(b), balls_in_bins[b])]_vars
    /\ [][SimMode /\ pc \notin {"start", "collect"} =>
            UNCHANGED balls_in_bins_trials]_vars
    /\ [](Aggregated => SumOfSums(N) = n_sim * B_SIM)

\* the report: a header, then one line per bin, in order 0..N
OneLinePerBin ==
    /\ [](Aggregated => /\ Len(report) = bin + 1
                        /\ bin <= N + 1
                        /\ report[1].kind = "header")
    /\ [](Aggregated /\ pc = "done" => Len(report) = N + 2)

\* C15 as stated: after aggregation every bin holds one count per trial,
\* the reported maximum and minimum are the largest and smallest of them,
\* the reported mean is their sum divided by n_sim, with
\* min <= mean <= max, there is one line per bin in order 0..N, and all
\* the lists together add up to n_sim * B_SIM.
C15_AsStated ==
    /\ ListsCollected
    /\ OneLinePerBin
    /\ [](Aggregated =>
            \A b \in 0..(bin - 1) :
               /\ MaxAndMinReported(b)
               /\ LineOf(b).mean * n_sim = 10 * SumSeq(TrialsOf(b))
               /\ 10 * LineOf(b).minval <= LineOf(b).mean
               /\ LineOf(b).mean <= 10 * LineOf(b).maxval)

\* C15 amended: as stated, except that the reported mean is the sum
\* divided by n_sim rounded to one decimal place: the tenth nearest to it.
C15_Aggregate ==
    /\ ListsCollected
    /\ OneLinePerBin
    /\ [](Aggregated =>
            \A b \in 0..(bin - 1) :
               LET d == 10 * SumSeq(TrialsOf(b)) - LineOf(b).mean * n_sim
               IN /\ MaxAndMinReported(b)
                  /\ 2 * d <= n_sim
                  /\ 2 * d >= 0 - n_sim
                  /\ 10 * LineOf(b).minval <= LineOf(b).mean
                  /\ LineOf(b).mean <= 10 * LineOf(b).maxval)

\* three trials of two balls over one level: bin 0 got 2, 0 and 0 balls and
\* is reported with mean 0.7, maximum 2 and minimum 0
C15_Witness ==
    /\ Aggregated
    /\ pc = "done"
    /\ n_sim = 3
    /\ N = 1
    /\ B_SIM = 2
    /\ TrialsOf(0) = <<2, 0, 0>>
    /\ LineOf(0).mean = 7
    /\ LineOf(0).maxval = 2
    /\ LineOf(0).minval = 0

\* the number of commands of a phase sent to motor m
CountTo(m, phase) ==
    Cardinality({i \in 1..Len(commands) :
                   commands[i].motor = m /\ commands[i].phase = phase})

\* C16: whatever the shafts do, the program is never aborted and repeats
\* nothing: every actuation target is computed from the recorded initial
\* position, the draw and the parity, every reset target is the recorded
\* initial position, and at every while test and in the terminal state each
\* motor of the list has been sent exactly one actuation and one reset
\* command per cycle.
C16_FaultsIgnored ==
    /\ Deployed => error = "none" /\ pc # "crashed"
    /\ JustActuated =>
          LastCommand.position =
             TargetPosition(initial_positions[LastCommand.motor],
                            right, parity)
    /\ \A i \in 1..Len(commands) :
          LET initial == initial_positions[commands[i].motor]
          IN IF commands[i].phase = "actuate"
             THEN commands[i].position \in
                     {PyMod(initial + MOTOR_OPENING_DEGREES, FULL_TURN),
                      PyMod(initial - MOTOR_OPENING_DEGREES, FULL_TURN)}
             ELSE commands[i].position = initial
    /\ Deployed /\ pc \in {"idle", "done"} =>
          \A m \in Range(motor_order) :
             /\ CountTo(m, "actuate") = ball_count
             /\ CountTo(m, "reset") = ball_count
    /\ Deployed /\ pc \in {"actuating", "settling"} =>
          \A k \in 1..Len(motor_order) :
             /\ CountTo(motor_order[k], "actuate") =
                   (IF k < motor_idx THEN ball_count ELSE ball_count - 1)
             /\ CountTo(motor_order[k], "reset") = ball_count - 1

\* both cycles have run to the end although a motor stalled in the first
\* cycle's reset and again on its way back in the second
C16_Witness ==
    /\ Terminal
    /\ B = 2
    /\ Len(motor_order) = 2
    /\ \E m \in Range(motor_order) : position[m] # initial_positions[m]
    /\ \A m \in Range(motor_order) : CountTo(m, "reset") = 2

\* the phases of a controller and the order the program goes through them
PhaseOrder ==
    {<<"start", "capture">>, <<"capture", "capture">>, <<"capture", "sync">>,
     <<"sync", "idle">>, <<"idle", "actuating">>,
     <<"actuating", "actuating">>, <<"actuating", "settling">>,
     <<"settling", "resetting">>, <<"resetting", "resetting">>,
     <<"resetting", "idle">>, <<"idle", "done">>}

\* the number of commands issued when the program stands at pc in cycle
\* ball_count, cycles placed one after the other
CommandsDue ==
    LET len == Len(motor_order)
        before == 2 * len * (ball_count - 1)
    IN CASE pc \in {"idle", "done"} -> 2 * len * ball_count
         [] pc = "actuating" -> before + (motor_idx - 1)
         [] pc = "settling" -> before + len
         [] pc = "resetting" -> before + len + (motor_idx - 1)
         [] OTHER -> 0

\* the settle waits begun when the program stands at pc in cycle ball_count
WaitsDue ==
    CASE pc \in {"idle", "done", "settling", "resetting"} -> ball_count
      [] pc = "actuating" -> ball_count - 1
      [] OTHER -> 0

\* the i-th command of the log belongs to the phase and the motor its place
\* in the cycle gives it: len actuations in list order, then len resets
InCycleOrder(i) ==
    LET len == Len(motor_order)
        r == (i - 1) % (2 * len)
    IN /\ commands[i].phase = (IF r < len THEN "actuate" ELSE "reset")
       /\ commands[i].motor = motor_order[(r % len) + 1]

CyclesInOrder ==
    Deployed =>
       /\ Len(commands) = CommandsDue
       /\ waits = WaitsDue
       /\ draws = CountPhase(commands, "actuate")
       /\ \A i \in 1..Len(commands) : InCycleOrder(i)

\* C17: a controller goes through its phases in the one order idle,
\* actuating, settling, resetting, idle; the log is cycle after cycle, each
\* cycle the actuations of all motors in list order, then (the settle wait
\* begun) the resets of all motors in list order; every draw is taken in the
\* step that issues one actuation command and in no other; the terminal
\* state is entered from idle only, with B cycles completed.
C17_PhaseOrder ==
    /\ []CyclesInOrder
    /\ [][Deployed /\ pc' # pc => <<pc, pc'>> \in PhaseOrder]_vars
    /\ [][Deployed /\ pc' = pc =>
             \/ pc \in {"capture", "actuating", "resetting"}
             \/ UNCHANGED <<depvars, draws, commands, waits>>]_vars
    /\ [][Deployed /\ draws' # draws =>
             /\ pc = "actuating"
             /\ draws' = draws + 1
             /\ Len(commands') = Len(commands) + 1
             /\ commands'[Len(commands')].phase = "actuate"
             /\ commands'[Len(commands')].motor = motor_order[motor_idx]]_vars
    /\ [][Deployed /\ commands' # commands =>
             /\ SubSeq(commands', 1, Len(commands)) = commands
             /\ Len(commands') = Len(commands) + 1
             /\ IF pc = "actuating"
                THEN draws' = draws + 1
                ELSE /\ pc = "resetting"
                     /\ draws' = draws
                     /\ waits >= ball_count]_vars
    /\ [][Deployed /\ pc' = "done" /\ pc # "done" =>
             /\ pc = "idle"
             /\ ball_count = B
             /\ Len(commands) = 2 * B * Len(motor_order)
             /\ waits = B]_vars

\* the second cycle's first actuation has been issued, the first cycle's
\* actuations, wait and resets all before it
C17_Witness ==
    /\ Deployed
    /\ pc = "actuating"
    /\ ball_count = 2
    /\ Len(motor_order) = 2
    /\ motor_idx = 2
    /\ Len(commands) = 5
    /\ waits = 1

Secondary == MODE = "reg"

\* a secondary that has not seen the button has asked nothing of any motor
\* and stands at or before the button wait
Blocked ==
    /\ pc \in {"start", "capture", "sync"}
    /\ commands = <<>>
    /\ draws = 0
    /\ waits = 0

\* C18: the secondary's start hangs on the button alone.  While the button
\* is not pressed no step takes the program past the button wait, however
\* long it has waited, and the wait is entered once; if the button is never
\* pressed the program reaches the wait and stays in it for ever, no command
\* issued; once the wait has seen the button, fair scheduling of the
\* program's own steps takes it through B cycles to the terminal state,
\* whatever the button does afterwards.
C18_TriggerOnly ==
    /\ [](Secondary /\ ~trigger_seen => Blocked)
    /\ [][Secondary /\ pc = "sync" /\ ~left_button =>
             pc' = "sync" /\ UNCHANGED <<depvars, draws, commands, waits>>]_vars
    /\ [][Secondary /\ pc' = "sync" => pc \in {"capture", "sync"}]_vars
    /\ [][Secondary /\ trigger_seen => trigger_seen']_vars
    /\ (Secondary /\ [](~left_button) => <>[](pc = "sync" /\ Blocked))
    /\ (Secondary /\ trigger_seen ~>
           Terminal /\ ball_count = B
                    /\ Len(commands) = 2 * B * Len(motor_order))

\* the secondary has run its two cycles after the button was seen, and the
\* button has been let go since
C18_Witness ==
    /\ Secondary
    /\ Terminal
    /\ trigger_seen
    /\ ~left_button
    /\ B = 2
    /\ Len(commands) = 2 * B * Len(motor_order)
    /\ Len(motor_order) = 2

\* the odd lengths the top hub's list can have, the shipped one (5) the last
OddLengths == {len \in 1..Len(ShippedTopOrder) : len % 2 = 1}

\* rows numbered through both hubs: the top hub's rows 1..len, then the
\* other hub's, its k-th row being row len + k
GlobalRow(mode, len, k) == IF mode = "top" THEN k ELSE len + k

\* the parity the top hub's formula gives a row
TopFormula(row) == Parity(ParityStart("top"), row)

\* C20: when the top hub's list has odd length, the parity the other hub
\* computes for its k-th motor is the parity the top hub's formula gives row
\* len + k, so that parity changes from each row to the next, within a hub
\* (each actuation after a cycle's first flips parity) and from the top
\* hub's last row to the other hub's first.
C20_RowNumbering ==
    /\ [](\A len \in OddLengths : \A k \in 1..Len(ShippedBotOrder) :
            /\ Parity(ParityStart("reg"), k) =
                  TopFormula(GlobalRow("reg", len, k))
            /\ Parity(ParityStart("reg"), k) #
                  (IF k = 1 THEN TopFormula(len)
                            ELSE Parity(ParityStart("reg"), k - 1)))
    /\ [](JustActuated /\ Len(TOP_MOTOR_ORDER) \in OddLengths =>
            /\ parity_start = ParityStart(MODE)
            /\ parity = TopFormula(GlobalRow(MODE, Len(TOP_MOTOR_ORDER),
                                             row_count)))
    /\ [][Deployed /\ pc = "actuating" /\ row_count' # row_count
            /\ row_count >= 1 => parity' # parity]_vars

\* the other hub's second motor has been actuated in a run where the top
\* hub's list has odd length: global row len + 2, parity 0
C20_Witness ==
    /\ Secondary
    /\ JustActuated
    /\ Len(TOP_MOTOR_ORDER) \in OddLengths
    /\ row_count = 2
    /\ parity = 0

\* the list a hub's MODE gives it
OwnList(h) == IF h.MODE = "top" THEN TOP_MOTOR_ORDER ELSE BOT_MOTOR_ORDER

\* the shafts of hub h when its program was started
OwnShafts(h) == IF h.MODE = "top" THEN TopShafts ELSE BotShafts

\* the commands hub h has issued when its program stands at h.pc
HubCommandsDue(h) ==
    LET len == Len(h.motor_order)
        before == 2 * len * (h.ball_count - 1)
    IN CASE h.pc \in {"idle", "done"} -> 2 * len * h.ball_count
         [] h.pc = "actuating" -> before + (h.motor_idx - 1)
         [] h.pc = "settling" -> before + len
         [] h.pc = "resetting" -> before + len + (h.motor_idx - 1)
         [] OTHER -> 0

\* hub h's log is the log of the program run on h alone: its own list and
\* the angles read from its own shafts, the commands in cycle order to
\* motors of its own list, every target made from the hub's own recorded
\* angle, one draw an actuation
RunsAsAlone(h) ==
    LET len == Len(h.motor_order)
    IN /\ h.pc # "start" => h.motor_order = OwnList(h)
       /\ \A m \in DOMAIN h.initial_positions :
             h.initial_positions[m] = OwnShafts(h)[m]
       /\ Len(h.commands) = HubCommandsDue(h)
       /\ h.draws = CountPhase(h.commands, "actuate")
       /\ \A i \in 1..Len(h.commands) :
             LET r == (i - 1) % (2 * len)
                 c == h.commands[i]
                 initial == h.initial_positions[c.motor]
             IN /\ c.motor \in Range(OwnList(h))
                /\ c.motor = h.motor_order[(r % len) + 1]
                /\ c.phase = (IF r < len THEN "actuate" ELSE "reset")
                /\ IF r < len
                   THEN c.position \in
                          {PyMod(initial + MOTOR_OPENING_DEGREES, FULL_TURN),
                           PyMod(initial - MOTOR_OPENING_DEGREES, FULL_TURN)}
                   ELSE c.position = initial

\* the command the program on this hub issues next, given the draw
CommandOfDraw(drawn) ==
    LET m == motor_order[motor_idx]
    IN IF pc = "actuating"
       THEN RunToPosition(m,
               TargetPosition(initial_positions[m], drawn,
                              Parity(ParityStart(MODE), row_count + 1)),
               "actuate")
       ELSE RunToPosition(m, initial_positions[m], "reset")

\* C19: on a board of two hubs, in every interleaving, a step of one hub's
\* program leaves the other hub as it was and handing the turn over changes
\* neither; each hub's log is the log of the program run alone, to motors of
\* its own list only, every command a function of the hub's own state and
\* draw; the top hub's sync step and every later step of either program can
\* be taken whatever the other hub has done, and the other hub's sync step
\* exactly when its own button is pressed.
C19_Independent ==
    /\ [](RunsAsAlone(Self) /\ RunsAsAlone(peer))
    /\ [][MODE' = MODE => peer' = peer]_vars
    /\ [][MODE' # MODE => peer' = Self /\ Self' = peer]_vars
    /\ [][MODE' = MODE /\ commands' # commands =>
             commands' = Append(commands, CommandOfDraw(right'))]_vars
    /\ [](pc = "sync" /\ MODE = "top" => ENABLED PumpBall)
    /\ [](pc = "sync" /\ MODE = "reg" =>
             (ENABLED WaitUntilPressed <=> left_button))
    /\ [](pc \notin {"sync", "done"} => ENABLED DeployStep)

\* the other hub has run its cycle to the end while the top hub's program
\* has not made its first step: no ball fed yet
C19_Witness ==
    /\ MODE = "reg"
    /\ pc = "done"
    /\ Len(commands) = 4
    /\ peer.MODE = "top"
    /\ peer.pc = "start"
    /\ peer.feed_count = 0

====
